---- MODULE Spec2Model ----
(***************************************************************************)
(* Model of src/flask-app/app.py: a Flask service whose behaviour is gated *)
(* by a configuration dictionary (current_config) that a background thread *)
(* (config_updater) refreshes from an HTTP configuration agent, while      *)
(* request handlers (/, /health, /config, /users) read it.                  *)
(*                                                                         *)
(* Threads: the main thread runs initialize_config at import time, then    *)
(* serves requests; the updater thread is started at the end of            *)
(* initialize_config.  The code takes no lock anywhere.  One step of the   *)
(* model is one access to the shared dictionary (a whole dict.update, a    *)
(* whole-dictionary read or one .get), which is what CPython executes      *)
(* without a thread switch; thread switches happen between such steps.     *)
(***************************************************************************)
EXTENDS Integers, Sequences, FiniteSets, TLC

\* ---------------------------------------------------------------- bounds
\* Longest JSON array the agent answers with.
MaxArrayLen == 2

\* ------------------------------------------------------------- constants
HTTP_OK == 200
HTTP_NOT_MODIFIED == 304
\* A status that is neither 200 nor 304 (the else branch of line 57).
HTTP_OTHER == 500
HTTP_FORBIDDEN == 403
\* What Flask answers when a handler raises.
HTTP_INTERNAL_ERROR == 500

FLAG == "featureXEnabled"
API == "apiUrl"
\* A key the defaults do not have.
EXTRA == "maxItems"
Keys == {FLAG, API, EXTRA}
\* The integer 1 as a dictionary key: a JSON object cannot have it, the
\* two-element array [1, 2] given to dict.update can.
NumKey == "1"
IsStrKey(k) == k # NumKey
KeyOrder == <<API, FLAG, EXTRA>>

\* Python values, written as their repr.
PyNone == "None"
PyFalse == "False"
PyTrue == "True"
DefaultApiUrl == "'https://api.example.com'"
OtherApiUrl == "'https://api2.example.com'"

\* Defaults that ship with the feature switched on.
DefaultConfigFlagOn == [k \in {FLAG, API} |-> IF k = FLAG THEN PyTrue ELSE DefaultApiUrl]
\* The module-level dictionary of lines 23-26.
DefaultConfig == [k \in {FLAG, API} |-> IF k = FLAG THEN PyFalse ELSE DefaultApiUrl]

\* The values the agent may send for each key.
ValuesOf(k) ==
  IF k = FLAG THEN {PyFalse, PyTrue, "'false'"}
  ELSE IF k = API THEN {OtherApiUrl}
  ELSE {"10"}

\* bool(v) for a scalar Python value.
Truthy(v) == v \notin {PyNone, PyFalse, "0", "''", "Undefined"}

\* ------------------------------------------------------------ JSON bodies
\* An element of a JSON array or a member of a JSON object.  pair = TRUE is
\* a member "k": v of an object, or a two-element array [k, v]; pair = FALSE
\* is an array element that is no two-element sequence (the number 1).
PairItems == {[pair |-> TRUE, k |-> k, v |-> v] : <<k, v>> \in
                UNION {{<<k, v>> : v \in ValuesOf(k)} : k \in Keys}}
BadItem == [pair |-> FALSE, k |-> "", v |-> "1"]

SeqsUpTo(S, n) == UNION {[1..m -> S] : m \in 0..n}

\* The members of the JSON object with the keys K and the values f, as
\* dict.update goes through them.  The update is one step for every other
\* thread, so one order of the members stands for all of them.
Members(K, f) ==
  LET In(k) == k \in K
      ks == SelectSeq(KeyOrder, In)
  IN [i \in 1..Len(ks) |-> [pair |-> TRUE, k |-> ks[i], v |-> f[ks[i]]]]

\* What response.json() yields: a dict, a list, a scalar; or it raises.
\* Every JSON object over Keys with the values of ValuesOf.
ObjectBodies ==
  {[kind |-> "object", items |-> Members(DOMAIN f, f), scalar |-> PyNone] :
     f \in UNION {{g \in [K -> UNION {ValuesOf(k) : k \in Keys}] :
                     \A k \in K : g[k] \in ValuesOf(k)} : K \in SUBSET Keys}}
\* The elements tried in JSON arrays.
ArrayItems ==
  {BadItem, [pair |-> TRUE, k |-> FLAG, v |-> PyTrue],
   [pair |-> TRUE, k |-> API, v |-> OtherApiUrl],
   [pair |-> TRUE, k |-> NumKey, v |-> "2"]}
ArrayBodies ==
  {[kind |-> "array", items |-> s, scalar |-> PyNone] :
     s \in SeqsUpTo(ArrayItems, MaxArrayLen)}
ScalarBodies ==
  {[kind |-> "scalar", items |-> <<>>, scalar |-> v] : v \in {PyNone, "0", "5"}}
MalformedBody == [kind |-> "malformed", items |-> <<>>, scalar |-> PyNone]
Bodies == ObjectBodies \cup ArrayBodies \cup ScalarBodies \cup {MalformedBody}
\* The bodies tried with a status other than 200: no JSON, or a JSON object
\* with at most one member.
OtherStatusBodies ==
  {MalformedBody} \cup {b \in ObjectBodies : Len(b.items) <= 1}

\* The Python value None (also what the JSON body null parses to).
NoneValue == [kind |-> "scalar", items |-> <<>>, scalar |-> PyNone]

\* What requests.get does: it raises (connection refused, DNS failure, the
\* 5 s timeout) or it returns a response with a status and a body.
Responses ==
  {[exc |-> e, status |-> 0, body |-> MalformedBody] :
     e \in {"ConnectionError", "Timeout"}}
  \cup {[exc |-> "none", status |-> HTTP_OK, body |-> b] : b \in Bodies}
  \cup {[exc |-> "none", status |-> s, body |-> b] :
          s \in {HTTP_NOT_MODIFIED, HTTP_OTHER}, b \in OtherStatusBodies}

\* ------------------------------------------------------ exception classes
\* requests.exceptions.JSONDecodeError (raised by response.json() since
\* requests 2.27), ConnectionError and Timeout derive from RequestException;
\* TypeError and ValueError do not.
IsRequestException(e) == e \in {"ConnectionError", "Timeout", "JSONDecodeError"}
\* Every exception modelled here derives from Exception.
IsException(e) == e # "none"

\* ------------------------------------------------- fetch_config_from_agent
\* response.json(): the parsed body, or JSONDecodeError on a malformed one.
ResponseJson(body) ==
  IF body.kind = "malformed"
    THEN [exc |-> "JSONDecodeError", value |-> NoneValue]
    ELSE [exc |-> "none", value |-> body]

\* The try block of lines 46-59, before the except clause: the exception
\* raised, the value returned and the line logged (52, 55 or 58).
FetchBody(resp) ==
  IF resp.exc # "none" THEN [exc |-> resp.exc, value |-> NoneValue, log |-> "none"]
  ELSE IF resp.status = HTTP_OK
    THEN LET j == ResponseJson(resp.body) IN
         [exc |-> j.exc, value |-> j.value,
          log |-> IF j.exc = "none" THEN "info: retrieved" ELSE "none"]
  ELSE IF resp.status = HTTP_NOT_MODIFIED
    THEN [exc |-> "none", value |-> NoneValue, log |-> "info: not modified"]
  ELSE [exc |-> "none", value |-> NoneValue, log |-> "error: failed to fetch"]

\* An except clause that names requests.exceptions.ConnectionError only.
CatchConnectionErrorOnly(r) ==
  IF r.exc = "ConnectionError"
    THEN [exc |-> "none", value |-> NoneValue, log |-> "error: error fetching"]
    ELSE r

\* The except clause of lines 60-62: a RequestException is logged and None
\* is returned; any other exception escapes.
CatchRequestException(r) ==
  IF r.exc # "none" /\ IsRequestException(r.exc)
    THEN [exc |-> "none", value |-> NoneValue, log |-> "error: error fetching"]
    ELSE r

\* A status check that treats 304 like 200.
fetch_parsing_not_modified(resp) ==
  CatchRequestException(
    FetchBody(IF resp.exc = "none" /\ resp.status = HTTP_NOT_MODIFIED
                THEN [resp EXCEPT !.status = HTTP_OK] ELSE resp))

\* A status check that parses the body of an error response too.
fetch_parsing_error_status(resp) ==
  CatchRequestException(
    FetchBody(IF resp.exc = "none" /\ resp.status # HTTP_NOT_MODIFIED
                THEN [resp EXCEPT !.status = HTTP_OK] ELSE resp))

\* Lines 43-62: the exception that escapes, the value returned and the line
\* logged.
fetch_config_from_agent(resp) == CatchRequestException(FetchBody(resp))

\* The outcome of one poll, in the words of the specification's FetchResult.
FetchResult(resp) ==
  IF resp.exc # "none" THEN "Failed"
  ELSE IF resp.status = HTTP_OK
    THEN (IF resp.body.kind = "malformed" THEN "Failed" ELSE "Updated")
  ELSE IF resp.status = HTTP_NOT_MODIFIED THEN "Unchanged"
  ELSE "Failed"

\* bool(value) for what fetch_config_from_agent returned (lines 71, 179).
ValueTruthy(val) ==
  IF val.kind \in {"object", "array"} THEN Len(val.items) > 0
  ELSE Truthy(val.scalar)

\* ------------------------------------------------------------ dict.update
EmptyDict == [k \in {} |-> PyNone]

\* A store that leaves k as the only key.
SetItemDroppingOthers(d, k, v) == [x \in {k} |-> v]
\* d[k] = v
SetItem(d, k, v) == [x \in (DOMAIN d) \cup {k} |-> IF x = k THEN v ELSE d[x]]

\* dict.update over the members / elements in order, from index i on: each
\* pair is stored; an element that is no pair raises and leaves the pairs
\* before it stored.
RECURSIVE UpdateFrom(_, _, _)
UpdateFrom(d, items, i) ==
  IF i > Len(items) THEN [cfg |-> d, exc |-> "none"]
  ELSE IF ~items[i].pair THEN [cfg |-> d, exc |-> "TypeError"]
  ELSE UpdateFrom(SetItem(d, items[i].k, items[i].v), items, i + 1)

\* The dictionary replaced by the document instead of merged with it.
RECURSIVE ReplaceFrom(_, _, _)
ReplaceFrom(d, items, i) ==
  IF i > Len(items) THEN [cfg |-> d, exc |-> "none"]
  ELSE IF ~items[i].pair THEN [cfg |-> d, exc |-> "TypeError"]
  ELSE ReplaceFrom(SetItem(IF i = 1 THEN EmptyDict ELSE d, items[i].k, items[i].v),
                   items, i + 1)
dict_replace(d, val) ==
  IF val.kind = "scalar" THEN [cfg |-> d, exc |-> "TypeError"]
  ELSE ReplaceFrom(d, val.items, 1)

\* current_config.update(val) (lines 73, 180): the dictionary afterwards and
\* the exception raised.  A scalar is not iterable.
dict_update(d, val) ==
  IF val.kind = "scalar" THEN [cfg |-> d, exc |-> "TypeError"]
  ELSE UpdateFrom(d, val.items, 1)

\* d.get(k, default)
DictGet(d, k, default) == IF k \in DOMAIN d THEN d[k] ELSE default

\* ------------------------------------------------------------------ state
VARIABLES
  current_config,   \* the module-level dictionary (line 23)
  main_pc,          \* where the main thread is in initialize_config
  initial_config,   \* its local (line 178)
  upd_pc,           \* where the updater thread is in config_updater
  new_config,       \* its local (line 70)
  last_outcome,     \* FetchResult of the fetch that returned last ("none"
                    \* while the next one is in flight)
  updated_seen,     \* some fetch so far had the outcome Updated
  agent_trickles,   \* the agent answers the fetch in flight without ever
                    \* ending the response or pausing for the timeout
  requests          \* the requests in progress

vars == <<current_config, main_pc, initial_config, upd_pc, new_config,
          last_outcome, updated_seen, agent_trickles, requests>>

\* The handlers only read the dictionary, so requests do not affect each
\* other: one request in progress at a time shows every interleaving of a
\* request with the updater.
RequestIds == {"r1"}
Routes == {"home", "health", "config", "users"}

\* A handler not serving anything.
IdleRequest ==
  [route |-> "none", pc |-> "idle", dump |-> EmptyDict, used |-> "", shown |-> "",
   status |-> 0, torn |-> FALSE]

Init ==
  /\ current_config = DefaultConfig
  /\ main_pc = "init_fetch"
  /\ initial_config = NoneValue
  /\ upd_pc = "not_started"
  /\ new_config = NoneValue
  /\ last_outcome = "none"
  /\ updated_seen = FALSE
  /\ agent_trickles \in BOOLEAN
  /\ requests = [r \in RequestIds |-> IdleRequest]

\* --------------------------------------------------------- initialize_config
\* Line 49: requests.get(url, timeout=5) returns or raises.  The timeout
\* bounds the wait for the connection and each wait for the next bytes, not
\* the call: a silent agent ends it with Timeout, an agent that keeps
\* sending within the timeout does not end it.
RequestsGetReturns == ~agent_trickles

\* Line 178: the startup fetch returns.
InitFetch ==
  /\ main_pc = "init_fetch"
  /\ RequestsGetReturns
  /\ agent_trickles' = FALSE
  /\ \E resp \in Responses :
       LET r == fetch_config_from_agent(resp) IN
       /\ initial_config' = r.value
       /\ main_pc' = IF r.exc # "none" THEN "raised" ELSE "init_merge"
       /\ last_outcome' = FetchResult(resp)
       /\ updated_seen' = (updated_seen \/ FetchResult(resp) = "Updated")
  /\ UNCHANGED <<current_config, upd_pc, new_config, requests>>

\* Lines 179-183: nothing here catches what update raises.
InitMerge ==
  /\ main_pc = "init_merge"
  /\ IF ValueTruthy(initial_config)
       THEN LET u == dict_update(current_config, initial_config) IN
            /\ current_config' = u.cfg
            /\ main_pc' = IF u.exc # "none" THEN "raised" ELSE "start_thread"
       ELSE /\ current_config' = current_config
            /\ main_pc' = "start_thread"
  /\ UNCHANGED <<initial_config, upd_pc, new_config, last_outcome, updated_seen,
                 agent_trickles, requests>>

\* The thread started at the top of initialize_config, before the startup
\* fetch of line 178.
InitStartThreadBeforeFetch ==
  /\ main_pc = "init_fetch"
  /\ upd_pc = "not_started"
  /\ upd_pc' = "fetching"
  /\ UNCHANGED <<current_config, main_pc, initial_config, new_config,
                 last_outcome, updated_seen, agent_trickles, requests>>

\* Lines 186-188: the updater thread is started; the module is imported and
\* the application serves requests.
InitStartThread ==
  /\ main_pc = "start_thread"
  /\ main_pc' = "serving"
  /\ upd_pc' = "fetching"
  /\ initial_config' = NoneValue    \* initialize_config returns
  /\ last_outcome' = "none"
  /\ agent_trickles' \in BOOLEAN
  /\ UNCHANGED <<current_config, new_config, updated_seen, requests>>

\* ------------------------------------------------------------ config_updater
\* An except clause that names requests.exceptions.RequestException only.
UpdaterCatchesRequestExceptionOnly(e) == IsRequestException(e)
\* The except clause of line 80: except Exception.
UpdaterCatches(e) == IsException(e)

\* The keys whose value a merge changed (or added).
Changed(pre, post) ==
  {k \in DOMAIN post : k \notin DOMAIN pre \/ pre[k] # post[k]}

\* The keys a request in progress has read, and those it is still to read.
ReadSoFar(req) ==
  IF req.route = "home" /\ req.pc \in {"L111", "L112"} THEN DOMAIN req.dump
  ELSE IF req.route = "users" /\ req.pc = "L163" THEN {FLAG}
  ELSE {}
StillToRead(req) ==
  IF req.route = "home" /\ req.pc \in {"L111", "L112"} THEN {FLAG}
  ELSE IF req.route = "users" /\ req.pc = "L163" THEN {FLAG}
  ELSE {}

\* One merge changed a key the request has read and another key it reads next.
TornBy(req, pre, post) ==
  \E k1 \in ReadSoFar(req) \cap Changed(pre, post) :
    \E k2 \in StillToRead(req) \cap Changed(pre, post) : k1 # k2

\* Line 70: the fetch of this iteration returns.
UpdaterFetch ==
  /\ upd_pc = "fetching"
  /\ RequestsGetReturns
  /\ agent_trickles' = FALSE
  /\ \E resp \in Responses :
       LET r == fetch_config_from_agent(resp) IN
       /\ new_config' = r.value
       /\ upd_pc' = IF r.exc # "none" /\ ~UpdaterCatches(r.exc) THEN "dead"
                    ELSE IF r.exc # "none" THEN "sleeping"
                    ELSE "fetched"
       /\ last_outcome' = FetchResult(resp)
       /\ updated_seen' = (updated_seen \/ FetchResult(resp) = "Updated")
  /\ UNCHANGED <<current_config, main_pc, initial_config, requests>>

\* The keys that lines 72-79 (and 180-181) report as unknown: none, the only
\* lines logged name the flag and print the whole dictionary.
KeysLoggedAsUnknown == {}

\* Lines 71-81: the merge, with what it raises caught by line 80.
UpdaterMerge ==
  /\ upd_pc = "fetched"
  /\ IF ValueTruthy(new_config)
       THEN LET u == dict_update(current_config, new_config) IN
            /\ current_config' = u.cfg
            /\ upd_pc' = IF u.exc # "none" /\ ~UpdaterCatches(u.exc)
                           THEN "dead" ELSE "sleeping"
            /\ requests' = [r \in RequestIds |->
                 [requests[r] EXCEPT !.torn =
                    @ \/ TornBy(requests[r], current_config, u.cfg)]]
       ELSE /\ current_config' = current_config
            /\ upd_pc' = "sleeping"
            /\ requests' = requests
  /\ UNCHANGED <<main_pc, initial_config, new_config, last_outcome, updated_seen,
                 agent_trickles>>

\* Line 83: the sleep ends and the next iteration calls the fetch.  The old
\* new_config is not read again before line 70 assigns the next one.
UpdaterSleep ==
  /\ upd_pc = "sleeping"
  /\ upd_pc' = "fetching"
  /\ new_config' = NoneValue
  /\ last_outcome' = "none"
  /\ agent_trickles' \in BOOLEAN
  /\ UNCHANGED <<current_config, main_pc, initial_config, updated_seen, requests>>

Updater == UpdaterFetch \/ UpdaterMerge \/ UpdaterSleep

\* The steps of the main thread in initialize_config (lines 173-188).
Main == InitFetch \/ InitMerge \/ InitStartThread

\* ---------------------------------------------------------- request handlers
\* A handler module that reads a copy of the dictionary made at import.
ConfigCopiedAtImport == DefaultConfig
\* The dictionary the handlers read: the global itself, at the time of the
\* read (lines 140, 148, 154, 159, 163).
ConfigReadByHandlers == current_config

\* Flask's json.dumps (jsonify of line 154, tojson of line 107), which sorts
\* the keys (sort_keys is on by default): str and int keys do not compare.
JsonDumps(d) ==
  IF (\E k \in DOMAIN d : IsStrKey(k)) /\ (\E k \in DOMAIN d : ~IsStrKey(k))
    THEN [exc |-> "TypeError", value |-> EmptyDict]
    ELSE [exc |-> "none", value |-> d]

\* Jinja's config.featureXEnabled (lines 111, 112): the item, or Undefined.
TemplateFlag(d) == DictGet(d, FLAG, "Undefined")

\* The gate inverted.
ListUsersRefusesWhenEnabled(v) == Truthy(v)
\* Line 159: if not current_config.get("featureXEnabled", False)
ListUsersRefuses(v) == ~Truthy(v)

\* Requests served from the moment the module starts to be imported.
ServingStartedAtImport == TRUE
\* The application object is handed to the server once the import of the
\* module, which ends with lines 191-192, has returned.
ServingStarted == main_pc = "serving"

\* The serving layer dispatches a request to a handler.
StartRequest(r) ==
  /\ ServingStarted
  /\ requests[r].pc = "idle"
  /\ \E route \in Routes :
       requests' = [requests EXCEPT ![r] =
         [IdleRequest EXCEPT !.route = route,
            !.pc = CASE route = "home" -> "L107"
                     [] route = "health" -> "L148"
                     [] route = "config" -> "L154"
                     [] route = "users" -> "L159"]]
  /\ UNCHANGED <<current_config, main_pc, initial_config, upd_pc, new_config,
                 last_outcome, updated_seen, agent_trickles>>

\* Line 107 of the template: config | tojson, the whole dictionary.  When the
\* dump raises the rendering ends there.
HomeDump(r) ==
  /\ requests[r].route = "home" /\ requests[r].pc = "L107"
  /\ LET j == JsonDumps(ConfigReadByHandlers) IN
     requests' = [requests EXCEPT
       ![r].dump = j.value,
       ![r].status = IF j.exc # "none" THEN HTTP_INTERNAL_ERROR ELSE 0,
       ![r].pc = IF j.exc # "none" THEN "done" ELSE "L111"]
  /\ UNCHANGED <<current_config, main_pc, initial_config, upd_pc, new_config,
                 last_outcome, updated_seen, agent_trickles>>

\* Line 111: the class of the status paragraph.
HomeClass(r) ==
  /\ requests[r].route = "home" /\ requests[r].pc = "L111"
  /\ requests' = [requests EXCEPT
       ![r].used = IF Truthy(TemplateFlag(ConfigReadByHandlers))
                     THEN "feature-enabled" ELSE "feature-disabled",
       ![r].pc = "L112"]
  /\ UNCHANGED <<current_config, main_pc, initial_config, upd_pc, new_config,
                 last_outcome, updated_seen, agent_trickles>>

\* Line 112: the text of the status paragraph; the page is rendered.
HomeText(r) ==
  /\ requests[r].route = "home" /\ requests[r].pc = "L112"
  /\ requests' = [requests EXCEPT
       ![r].shown = IF Truthy(TemplateFlag(ConfigReadByHandlers))
                      THEN "ENABLED" ELSE "DISABLED",
       ![r].status = HTTP_OK,
       ![r].pc = "done"]
  /\ UNCHANGED <<current_config, main_pc, initial_config, upd_pc, new_config,
                 last_outcome, updated_seen, agent_trickles>>

\* A health handler that puts the defaults back before it answers.
HealthResettingConfig(r) ==
  /\ requests[r].route = "health" /\ requests[r].pc = "L148"
  /\ current_config' = DefaultConfig
  /\ requests' = [requests EXCEPT
       ![r].shown = PyTrue,
       ![r].status = HTTP_OK,
       ![r].pc = "done"]
  /\ UNCHANGED <<main_pc, initial_config, upd_pc, new_config,
                 last_outcome, updated_seen, agent_trickles>>

\* config_loaded telling whether the dictionary differs from the defaults.
ConfigLoadedWhenNotDefault(d) == d # DefaultConfig
\* Line 148: bool(current_config), true of a dictionary that is not empty.
ConfigLoaded(d) == DOMAIN d # {}

\* Lines 145-149: config_loaded = bool(current_config).
Health(r) ==
  /\ requests[r].route = "health" /\ requests[r].pc = "L148"
  /\ requests' = [requests EXCEPT
       ![r].shown = IF ConfigLoaded(ConfigReadByHandlers) THEN PyTrue ELSE PyFalse,
       ![r].status = HTTP_OK,
       ![r].pc = "done"]
  /\ UNCHANGED <<current_config, main_pc, initial_config, upd_pc, new_config,
                 last_outcome, updated_seen, agent_trickles>>

\* Line 154: jsonify(current_config).
GetConfig(r) ==
  /\ requests[r].route = "config" /\ requests[r].pc = "L154"
  /\ LET j == JsonDumps(ConfigReadByHandlers) IN
     requests' = [requests EXCEPT
       ![r].dump = j.value,
       ![r].status = IF j.exc # "none" THEN HTTP_INTERNAL_ERROR ELSE HTTP_OK,
       ![r].pc = "done"]
  /\ UNCHANGED <<current_config, main_pc, initial_config, upd_pc, new_config,
                 last_outcome, updated_seen, agent_trickles>>

\* Line 159: the gate; lines 166-171 when it lets the request through.
ListUsersGate(r) ==
  /\ requests[r].route = "users" /\ requests[r].pc = "L159"
  /\ LET v == DictGet(ConfigReadByHandlers, FLAG, PyFalse) IN
     requests' = [requests EXCEPT
       ![r].used = v,
       ![r].status = IF ListUsersRefuses(v) THEN 0 ELSE HTTP_OK,
       ![r].pc = IF ListUsersRefuses(v) THEN "L163" ELSE "done"]
  /\ UNCHANGED <<current_config, main_pc, initial_config, upd_pc, new_config,
                 last_outcome, updated_seen, agent_trickles>>

\* Lines 160-164: the body of the refusal, with current_flag_value read again.
ListUsersRefusal(r) ==
  /\ requests[r].route = "users" /\ requests[r].pc = "L163"
  /\ requests' = [requests EXCEPT
       ![r].shown = DictGet(ConfigReadByHandlers, FLAG, PyFalse),
       ![r].status = HTTP_FORBIDDEN,
       ![r].pc = "done"]
  /\ UNCHANGED <<current_config, main_pc, initial_config, upd_pc, new_config,
                 last_outcome, updated_seen, agent_trickles>>

\* The response is sent; the handler is free again.
SendResponse(r) ==
  /\ requests[r].pc = "done"
  /\ requests' = [requests EXCEPT ![r] = IdleRequest]
  /\ UNCHANGED <<current_config, main_pc, initial_config, upd_pc, new_config,
                 last_outcome, updated_seen, agent_trickles>>

Handler(r) ==
  \/ StartRequest(r) \/ HomeDump(r) \/ HomeClass(r) \/ HomeText(r) \/ Health(r)
  \/ GetConfig(r) \/ ListUsersGate(r) \/ ListUsersRefusal(r) \/ SendResponse(r)

\* ------------------------------------------------------------ specification
Next ==
  \/ InitFetch \/ InitMerge \/ InitStartThread
  \/ UpdaterFetch \/ UpdaterMerge \/ UpdaterSleep
  \/ \E r \in RequestIds : Handler(r)

Spec == Init /\ [][Next]_vars

\* The operating system schedules both threads, a fetch that can return does
\* and every sleep ends (line 83).
LiveSpec == Spec /\ WF_vars(Updater) /\ WF_vars(Main)

\* ------------------------------------------------------------------ claims
R1 == "r1"

\* The keys of a JSON object and the value it gives a key.
DocKeys(doc) == {doc.items[i].k : i \in 1..Len(doc.items)}
DocValue(doc, k) == (CHOOSE it \in {doc.items[i] : i \in 1..Len(doc.items)} : it.k = k).v

\* C1: a request never observes some keys from before and some from after
\* one merge: no finished request has read one key before a merge that
\* changed it and another key, changed by the same merge, after it.
C1_AtomicVisibility ==
  \A r \in RequestIds : requests[r].pc = "done" => ~requests[r].torn

\* C2: every value a request reads comes from one snapshot version: the
\* current_flag_value of a 403 is the value the gate tested, and the status
\* paragraph of the home page agrees with the flag in the dictionary shown
\* on the same page.
C2_OneVersionPerRequest ==
  \A r \in RequestIds :
    requests[r].pc = "done" =>
      /\ (requests[r].route = "users" /\ requests[r].status = HTTP_FORBIDDEN)
           => requests[r].shown = requests[r].used
      /\ requests[r].route = "home"
           => /\ (requests[r].used = "feature-enabled")
                   <=> Truthy(TemplateFlag(requests[r].dump))
              /\ (requests[r].shown = "ENABLED")
                   <=> Truthy(TemplateFlag(requests[r].dump))

\* The snapshot post is the snapshot pre with exactly the keys of doc set to
\* doc's values.
PartialMerge(pre, doc, post) ==
  /\ DOMAIN post = (DOMAIN pre) \cup DocKeys(doc)
  /\ \A k \in DocKeys(doc) : post[k] = DocValue(doc, k)
  /\ \A k \in (DOMAIN pre) \ DocKeys(doc) : k \in DOMAIN post /\ post[k] = pre[k]

\* C3: the startup merge and every merge of the loop, of a JSON object, set
\* the object's keys to its values, keep every other key with its old value
\* and remove no key.
C3_MergeIsPartial ==
  [][/\ (upd_pc = "fetched" /\ upd_pc' # "fetched" /\ new_config.kind = "object")
          => PartialMerge(current_config, new_config, current_config')
     /\ (main_pc = "init_merge" /\ main_pc' # "init_merge"
           /\ initial_config.kind = "object")
          => PartialMerge(current_config, initial_config, current_config')]_vars

\* The loop merged {apiUrl: ...} alone and featureXEnabled kept the value an
\* earlier merge gave it.
C3_Witness ==
  /\ upd_pc = "sleeping"
  /\ new_config.kind = "object" /\ DocKeys(new_config) = {API}
  /\ current_config[API] = OtherApiUrl
  /\ current_config[FLAG] = PyTrue

\* C4: from the return of a fetch whose outcome is Failed to the end of that
\* iteration (and of the startup) no step changes the snapshot.
C4_FailedIsNoOp ==
  [][(last_outcome' = "Failed" \/ last_outcome = "Failed")
       => current_config' = current_config]_vars

\* The loop sleeps after a failed fetch, with a snapshot that is not the
\* defaults any more.
C4_Witness ==
  /\ upd_pc = "sleeping" /\ last_outcome = "Failed"
  /\ current_config # DefaultConfig

\* C5: the updater thread never stops: every iteration, whatever the fetch
\* returned or raised and whatever the merge raised, reaches the sleep of
\* line 83, and every sleep is followed by the next fetch.
C5_LoopNeverStops ==
  /\ [](upd_pc # "dead")
  /\ [](upd_pc = "fetched" => <>(upd_pc = "sleeping"))
  /\ [](upd_pc = "sleeping" => <>(upd_pc = "fetching"))

\* The loop sleeps after dict.update raised on a 200 body that is valid JSON
\* but no object.
C5_Witness ==
  /\ upd_pc = "sleeping"
  /\ ValueTruthy(new_config)
  /\ dict_update(DefaultConfig, new_config).exc # "none"

\* C6: initialize_config never raises, whatever the startup fetch returned.
C6_InitNeverRaises == main_pc # "raised"

\* C7: from the return of a fetch whose outcome is Unchanged (304) to the
\* end of that iteration (and of the startup) no step changes the snapshot.
C7_UnchangedIsNoOp ==
  [][(last_outcome' = "Unchanged" \/ last_outcome = "Unchanged")
       => current_config' = current_config]_vars

\* The loop sleeps after a 304, with a snapshot that is not the defaults.
C7_Witness ==
  /\ upd_pc = "sleeping" /\ last_outcome = "Unchanged"
  /\ current_config # DefaultConfig

\* The defaults, as the claim writes them.
CompiledInDefaults ==
  [k \in {"featureXEnabled", "apiUrl"} |->
     IF k = "featureXEnabled" THEN "False" ELSE "'https://api.example.com'"]

\* C8: as long as no fetch had the outcome Updated, the snapshot is the
\* compiled-in defaults, and so is what /config answers.
C8_DefaultsBeforeFirstSuccess ==
  ~updated_seen =>
    /\ current_config = CompiledInDefaults
    /\ \A r \in RequestIds :
         (requests[r].route = "config" /\ requests[r].pc = "done")
           => requests[r].dump = CompiledInDefaults

\* /config has answered after the startup fetch and a fetch of the loop
\* failed.
C8_Witness ==
  /\ ~updated_seen
  /\ upd_pc = "sleeping" /\ last_outcome = "Failed"
  /\ requests[R1].route = "config" /\ requests[R1].pc = "done"

\* C9: the value of featureXEnabled when /users tests it decides the result:
\* False is refused with 403, True gets the user list with 200.
C9_FlagDecidesUsers ==
  [][\A r \in RequestIds :
       /\ (requests[r].pc = "L159" /\ requests'[r].pc # "L159")
            => /\ current_config[FLAG] = PyFalse
                    => (requests'[r].pc = "L163" /\ requests'[r].status # HTTP_OK)
               /\ current_config[FLAG] = PyTrue
                    => (requests'[r].pc = "done" /\ requests'[r].status = HTTP_OK)
       /\ (requests[r].pc = "L163" /\ requests'[r].pc # "L163")
            => (requests'[r].pc = "done" /\ requests'[r].status = HTTP_FORBIDDEN)]_vars

\* A merge of the loop set the flag to True, and /users then answered 200.
C9_Witness ==
  /\ upd_pc = "sleeping" /\ new_config.kind = "object"
  /\ FLAG \in DocKeys(new_config) /\ DocValue(new_config, FLAG) = PyTrue
  /\ requests[R1].route = "users" /\ requests[R1].pc = "done"
  /\ requests[R1].status = HTTP_OK /\ requests[R1].used = PyTrue

\* What a step of request r read agrees with the document doc.
ReadAgrees(before, after, doc) ==
  /\ (before.pc \in {"L107", "L154"} /\ after.pc # before.pc)
       => \A k \in DocKeys(doc) : k \in DOMAIN after.dump
                                   /\ after.dump[k] = DocValue(doc, k)
  /\ (FLAG \in DocKeys(doc) /\ before.pc = "L111" /\ after.pc # before.pc)
       => ((after.used = "feature-enabled") <=> Truthy(DocValue(doc, FLAG)))
  /\ (FLAG \in DocKeys(doc) /\ before.pc = "L112" /\ after.pc # before.pc)
       => ((after.shown = "ENABLED") <=> Truthy(DocValue(doc, FLAG)))
  /\ (FLAG \in DocKeys(doc) /\ before.pc = "L159" /\ after.pc # before.pc)
       => after.used = DocValue(doc, FLAG)
  /\ (FLAG \in DocKeys(doc) /\ before.pc = "L163" /\ after.pc # before.pc)
       => after.shown = DocValue(doc, FLAG)

\* C10: once the iteration that fetched the JSON object D with status 200
\* has completed, the snapshot has D's values for D's keys and every read a
\* request makes gets them (until a later iteration merges something else).
C10_VisibleAfterOneIteration ==
  [][(upd_pc = "sleeping" /\ last_outcome = "Updated" /\ new_config.kind = "object")
       => /\ \A k \in DocKeys(new_config) :
               k \in DOMAIN current_config
               /\ current_config[k] = DocValue(new_config, k)
          /\ \A r \in RequestIds : ReadAgrees(requests[r], requests'[r], new_config)]_vars

\* The fetches in flight: the startup fetch of line 178, the fetch of line 70.
FetchesInFlight ==
  (IF main_pc = "init_fetch" THEN 1 ELSE 0) + (IF upd_pc = "fetching" THEN 1 ELSE 0)

\* The fetched values that are still to be merged (lines 179 and 71).
ResultsToMerge ==
  (IF main_pc = "init_merge" THEN 1 ELSE 0) + (IF upd_pc = "fetched" THEN 1 ELSE 0)

\* C11: at most one fetch is in flight at any time and none while a fetched
\* value waits to be merged, so merges happen in the order the fetches
\* complete; the merge of an Updated JSON object leaves the snapshot with the
\* object's values for its keys; a step of an iteration whose fetch was
\* Failed or Unchanged leaves the snapshot as it is.
C11_OneFetchAtATime ==
  /\ [](FetchesInFlight + ResultsToMerge <= 1)
  /\ [][/\ (upd_pc = "fetched" /\ upd_pc' = "sleeping" /\ last_outcome = "Updated"
              /\ new_config.kind = "object")
             => \A k \in DocKeys(new_config) :
                  k \in DOMAIN current_config'
                  /\ current_config'[k] = DocValue(new_config, k)
        /\ (main_pc = "init_merge" /\ main_pc' = "start_thread"
              /\ last_outcome = "Updated" /\ initial_config.kind = "object")
             => \A k \in DocKeys(initial_config) :
                  k \in DOMAIN current_config'
                  /\ current_config'[k] = DocValue(initial_config, k)
        /\ (last_outcome \in {"Failed", "Unchanged"}
              /\ last_outcome' \in {"Failed", "Unchanged"})
             => current_config' = current_config]_vars

\* The loop has merged a document after an earlier merge of another: the
\* key the earlier one added is still there, the flag has the loop's value.
C11_Witness ==
  /\ upd_pc = "sleeping" /\ last_outcome = "Updated"
  /\ new_config.kind = "object" /\ DocKeys(new_config) = {FLAG}
  /\ current_config[FLAG] = "'false'"
  /\ EXTRA \in DOMAIN current_config

\* C12: a read of the configuration never waits for the updater and never
\* fails: whatever the updater is doing, the next step of a request in
\* progress can be taken, and every answer is a success whose dictionary has
\* string keys only.
C12_ReadAlwaysSucceeds ==
  \A r \in RequestIds :
    /\ requests[r].pc \notin {"idle", "done"} => ENABLED Handler(r)
    /\ requests[r].pc = "done"
         => /\ requests[r].status # HTTP_INTERNAL_ERROR
            /\ \A k \in DOMAIN requests[r].dump : IsStrKey(k)

\* C13: for every response, fetch_config_from_agent raises nothing; a 200
\* with a body that parses returns exactly the parsed body (Updated); a 304
\* returns None and logs "not modified" (Unchanged); any other status, a
\* network error, a timeout and a 200 whose body does not parse return None
\* and log an error (Failed).  The value the updater holds after a fetch is
\* the one of the outcome.
C13_FetchClassifies ==
  /\ \A resp \in Responses :
       LET r == fetch_config_from_agent(resp) IN
       /\ r.exc = "none"
       /\ (resp.exc = "none" /\ resp.status = HTTP_OK /\ resp.body.kind # "malformed")
            => (r.value = resp.body /\ r.log = "info: retrieved")
       /\ (resp.exc = "none" /\ resp.status = HTTP_NOT_MODIFIED)
            => (r.value = NoneValue /\ r.log = "info: not modified")
       /\ (resp.exc = "none" /\ resp.status \notin {HTTP_OK, HTTP_NOT_MODIFIED})
            => (r.value = NoneValue /\ r.log = "error: failed to fetch")
       /\ (resp.exc # "none"
             \/ (resp.status = HTTP_OK /\ resp.body.kind = "malformed"))
            => (r.value = NoneValue /\ r.log = "error: error fetching")
  /\ upd_pc = "fetched"
       => /\ last_outcome = "Updated" => new_config \in Bodies \ {MalformedBody}
          /\ last_outcome \in {"Unchanged", "Failed"} => new_config = NoneValue
  /\ main_pc = "init_merge"
       => /\ last_outcome = "Updated" => initial_config \in Bodies \ {MalformedBody}
          /\ last_outcome \in {"Unchanged", "Failed"} => initial_config = NoneValue

\* The updater holds the three-member document a 200 carried.
C13_Witness ==
  /\ upd_pc = "fetched" /\ last_outcome = "Updated"
  /\ new_config.kind = "object" /\ DocKeys(new_config) = Keys

\* C14: a fetch never hangs: every call of fetch_config_from_agent in
\* flight, the startup one and each one of the loop, returns.
C14_FetchNeverHangs ==
  /\ (upd_pc = "fetching") ~> (upd_pc # "fetching")
  /\ (main_pc = "init_fetch") ~> (main_pc # "init_fetch")

\* C15: the dictionary always holds the keys of the compiled-in defaults,
\* and no step removes a key from it.
C15_DefaultKeysStay ==
  /\ []({FLAG, API} \subseteq DOMAIN current_config)
  /\ [][DOMAIN current_config \subseteq DOMAIN current_config']_vars

\* A merge added a key and changed the flag; both default keys are there.
C15_Witness ==
  /\ upd_pc = "sleeping" /\ last_outcome = "Updated"
  /\ DOMAIN current_config = Keys
  /\ current_config[FLAG] = PyTrue /\ current_config[API] = DefaultApiUrl

\* C16 as stated: only the updater thread ever changes the dictionary.
C16_OnlyUpdaterWrites ==
  [][current_config' # current_config => upd_pc = "fetched"]_vars

\* C16 amended: the dictionary is changed by the merge of initialize_config,
\* before the updater thread is started and while no request is in progress,
\* and from then on by the merge of the updater thread only; no step of a
\* handler changes it, and the two merges are never both pending.
C16_StartupThenUpdaterWrite ==
  /\ [](~(main_pc = "init_merge" /\ upd_pc = "fetched"))
  /\ [][ /\ current_config' # current_config
              => \/ /\ main_pc = "init_merge" /\ upd_pc = "not_started"
                    /\ \A r \in RequestIds : requests[r].pc = "idle"
                 \/ /\ main_pc = "serving" /\ upd_pc = "fetched"
         /\ \A r \in RequestIds :
              requests'[r].pc # requests[r].pc => current_config' = current_config
       ]_vars

\* The merge of initialize_config has changed the dictionary and the updater
\* thread is not started yet.
C16_Witness ==
  /\ main_pc = "start_thread" /\ upd_pc = "not_started"
  /\ EXTRA \in DOMAIN current_config /\ current_config[FLAG] = PyTrue

\* C17: the startup fetch is the only one of the main thread and has
\* returned, with its document merged when it was an Updated object, before
\* the updater thread is started and before any request is in progress.
C17_StartupBeforeServing ==
  /\ [](upd_pc # "not_started" => main_pc = "serving")
  /\ [](\A r \in RequestIds : requests[r].pc # "idle" => main_pc = "serving")
  /\ [](main_pc = "start_thread" /\ last_outcome = "Updated"
          /\ initial_config.kind = "object"
          => \A k \in DocKeys(initial_config) :
               current_config[k] = DocValue(initial_config, k))
  /\ [][main_pc # "init_fetch" => main_pc' # "init_fetch"]_vars

\* The first request is in progress; the startup document was merged and the
\* first fetch of the loop has not returned yet.
C17_Witness ==
  /\ main_pc = "serving" /\ upd_pc = "fetching" /\ ~agent_trickles
  /\ requests[R1].route = "config" /\ requests[R1].pc = "L154"
  /\ current_config[API] = OtherApiUrl /\ current_config[FLAG] = PyFalse

\* C18: a key outside featureXEnabled and apiUrl is in the dictionary only
\* when it was logged as unknown.
C18_UnknownKeysNotAdopted ==
  \A k \in DOMAIN current_config \ {FLAG, API} : k \in KeysLoggedAsUnknown

\* C19: the value of featureXEnabled is always a boolean, and /users lets a
\* request through only when it read True.
C19_FlagIsBoolean ==
  /\ DictGet(current_config, FLAG, PyFalse) \in {PyFalse, PyTrue}
  /\ \A r \in RequestIds :
       (requests[r].route = "users" /\ requests[r].pc = "done"
          /\ requests[r].status = HTTP_OK)
         => requests[r].used = PyTrue

\* C20: /health always answers config_loaded = true, also while no fetch has
\* had the outcome Updated.
C20_HealthAlwaysLoaded ==
  /\ DOMAIN current_config # {}
  /\ \A r \in RequestIds :
       (requests[r].route = "health" /\ requests[r].pc = "done")
         => (requests[r].shown = PyTrue /\ requests[r].status = HTTP_OK)

\* /health has answered and no fetch so far had the outcome Updated.
C20_Witness ==
  /\ ~updated_seen /\ current_config = DefaultConfig
  /\ requests[R1].route = "health" /\ requests[R1].pc = "done"
  /\ requests[R1].shown = PyTrue

====
